---------------------------- MODULE Spec2Model ----------------------------
(***************************************************************************)
(* A model of adressbook_new.py: the validated fields Phone and Birthday,  *)
(* Record, AddressBook with its weekly birthday query, and the command     *)
(* handlers add / change / add-birthday.                                   *)
(*                                                                         *)
(* Python strings are sequences of one-character strings, so that the      *)
(* regular expression of Phone and the strptime pattern of Birthday are    *)
(* computed character by character.  An ASCII character is written as     *)
(* itself, any other character by its code point, "U+0663" for ARABIC-     *)
(* INDIC DIGIT THREE.  None is the empty sequence: Record.__init__ treats  *)
(* an empty birthday string as None and no Phone or Birthday holds an      *)
(* empty value.                                                            *)
(***************************************************************************)
EXTENDS Integers, Sequences, FiniteSets, TLC

VARIABLES
    data,   \* AddressBook.data: the entries [key, rec] in insertion order
    pre,    \* history: AddressBook.data as it was before the last operation
    ret,    \* the last operation: [op, args, exc, val], val the value returned
    out,    \* the strings the last operation handed to print, in order
    birthdays_by_day  \* history: that local of the last query at its end

vars == <<data, pre, ret, out, birthdays_by_day>>

(***************************************************************************)
(* Bounds                                                                  *)
(***************************************************************************)
MaxPhones == 2

MaxRawLen == 12

TodaySpan == 10

LeapSpan == 7

ClockGap == 1

(***************************************************************************)
(* Characters and numbers                                                  *)
(***************************************************************************)
None == <<>>

AsciiDigits == {"0", "1", "2", "3", "4", "5", "6", "7", "8", "9"}

\* the decimal digits (Unicode category Nd, Unicode 14.0.0 as in Python 3.11)
\* outside ASCII: one row per script, its digits zero to nine in order
UnicodeDigitRows ==
    <<
       <<"U+0660", "U+0661", "U+0662", "U+0663", "U+0664",
         "U+0665", "U+0666", "U+0667", "U+0668", "U+0669">>,
       <<"U+06F0", "U+06F1", "U+06F2", "U+06F3", "U+06F4",
         "U+06F5", "U+06F6", "U+06F7", "U+06F8", "U+06F9">>,
       <<"U+07C0", "U+07C1", "U+07C2", "U+07C3", "U+07C4",
         "U+07C5", "U+07C6", "U+07C7", "U+07C8", "U+07C9">>,
       <<"U+0966", "U+0967", "U+0968", "U+0969", "U+096A",
         "U+096B", "U+096C", "U+096D", "U+096E", "U+096F">>,
       <<"U+09E6", "U+09E7", "U+09E8", "U+09E9", "U+09EA",
         "U+09EB", "U+09EC", "U+09ED", "U+09EE", "U+09EF">>,
       <<"U+0A66", "U+0A67", "U+0A68", "U+0A69", "U+0A6A",
         "U+0A6B", "U+0A6C", "U+0A6D", "U+0A6E", "U+0A6F">>,
       <<"U+0AE6", "U+0AE7", "U+0AE8", "U+0AE9", "U+0AEA",
         "U+0AEB", "U+0AEC", "U+0AED", "U+0AEE", "U+0AEF">>,
       <<"U+0B66", "U+0B67", "U+0B68", "U+0B69", "U+0B6A",
         "U+0B6B", "U+0B6C", "U+0B6D", "U+0B6E", "U+0B6F">>,
       <<"U+0BE6", "U+0BE7", "U+0BE8", "U+0BE9", "U+0BEA",
         "U+0BEB", "U+0BEC", "U+0BED", "U+0BEE", "U+0BEF">>,
       <<"U+0C66", "U+0C67", "U+0C68", "U+0C69", "U+0C6A",
         "U+0C6B", "U+0C6C", "U+0C6D", "U+0C6E", "U+0C6F">>,
       <<"U+0CE6", "U+0CE7", "U+0CE8", "U+0CE9", "U+0CEA",
         "U+0CEB", "U+0CEC", "U+0CED", "U+0CEE", "U+0CEF">>,
       <<"U+0D66", "U+0D67", "U+0D68", "U+0D69", "U+0D6A",
         "U+0D6B", "U+0D6C", "U+0D6D", "U+0D6E", "U+0D6F">>,
       <<"U+0DE6", "U+0DE7", "U+0DE8", "U+0DE9", "U+0DEA",
         "U+0DEB", "U+0DEC", "U+0DED", "U+0DEE", "U+0DEF">>,
       <<"U+0E50", "U+0E51", "U+0E52", "U+0E53", "U+0E54",
         "U+0E55", "U+0E56", "U+0E57", "U+0E58", "U+0E59">>,
       <<"U+0ED0", "U+0ED1", "U+0ED2", "U+0ED3", "U+0ED4",
         "U+0ED5", "U+0ED6", "U+0ED7", "U+0ED8", "U+0ED9">>,
       <<"U+0F20", "U+0F21", "U+0F22", "U+0F23", "U+0F24",
         "U+0F25", "U+0F26", "U+0F27", "U+0F28", "U+0F29">>,
       <<"U+1040", "U+1041", "U+1042", "U+1043", "U+1044",
         "U+1045", "U+1046", "U+1047", "U+1048", "U+1049">>,
       <<"U+1090", "U+1091", "U+1092", "U+1093", "U+1094",
         "U+1095", "U+1096", "U+1097", "U+1098", "U+1099">>,
       <<"U+17E0", "U+17E1", "U+17E2", "U+17E3", "U+17E4",
         "U+17E5", "U+17E6", "U+17E7", "U+17E8", "U+17E9">>,
       <<"U+1810", "U+1811", "U+1812", "U+1813", "U+1814",
         "U+1815", "U+1816", "U+1817", "U+1818", "U+1819">>,
       <<"U+1946", "U+1947", "U+1948", "U+1949", "U+194A",
         "U+194B", "U+194C", "U+194D", "U+194E", "U+194F">>,
       <<"U+19D0", "U+19D1", "U+19D2", "U+19D3", "U+19D4",
         "U+19D5", "U+19D6", "U+19D7", "U+19D8", "U+19D9">>,
       <<"U+1A80", "U+1A81", "U+1A82", "U+1A83", "U+1A84",
         "U+1A85", "U+1A86", "U+1A87", "U+1A88", "U+1A89">>,
       <<"U+1A90", "U+1A91", "U+1A92", "U+1A93", "U+1A94",
         "U+1A95", "U+1A96", "U+1A97", "U+1A98", "U+1A99">>,
       <<"U+1B50", "U+1B51", "U+1B52", "U+1B53", "U+1B54",
         "U+1B55", "U+1B56", "U+1B57", "U+1B58", "U+1B59">>,
       <<"U+1BB0", "U+1BB1", "U+1BB2", "U+1BB3", "U+1BB4",
         "U+1BB5", "U+1BB6", "U+1BB7", "U+1BB8", "U+1BB9">>,
       <<"U+1C40", "U+1C41", "U+1C42", "U+1C43", "U+1C44",
         "U+1C45", "U+1C46", "U+1C47", "U+1C48", "U+1C49">>,
       <<"U+1C50", "U+1C51", "U+1C52", "U+1C53", "U+1C54",
         "U+1C55", "U+1C56", "U+1C57", "U+1C58", "U+1C59">>,
       <<"U+A620", "U+A621", "U+A622", "U+A623", "U+A624",
         "U+A625", "U+A626", "U+A627", "U+A628", "U+A629">>,
       <<"U+A8D0", "U+A8D1", "U+A8D2", "U+A8D3", "U+A8D4",
         "U+A8D5", "U+A8D6", "U+A8D7", "U+A8D8", "U+A8D9">>,
       <<"U+A900", "U+A901", "U+A902", "U+A903", "U+A904",
         "U+A905", "U+A906", "U+A907", "U+A908", "U+A909">>,
       <<"U+A9D0", "U+A9D1", "U+A9D2", "U+A9D3", "U+A9D4",
         "U+A9D5", "U+A9D6", "U+A9D7", "U+A9D8", "U+A9D9">>,
       <<"U+A9F0", "U+A9F1", "U+A9F2", "U+A9F3", "U+A9F4",
         "U+A9F5", "U+A9F6", "U+A9F7", "U+A9F8", "U+A9F9">>,
       <<"U+AA50", "U+AA51", "U+AA52", "U+AA53", "U+AA54",
         "U+AA55", "U+AA56", "U+AA57", "U+AA58", "U+AA59">>,
       <<"U+ABF0", "U+ABF1", "U+ABF2", "U+ABF3", "U+ABF4",
         "U+ABF5", "U+ABF6", "U+ABF7", "U+ABF8", "U+ABF9">>,
       <<"U+FF10", "U+FF11", "U+FF12", "U+FF13", "U+FF14",
         "U+FF15", "U+FF16", "U+FF17", "U+FF18", "U+FF19">>,
       <<"U+104A0", "U+104A1", "U+104A2", "U+104A3", "U+104A4",
         "U+104A5", "U+104A6", "U+104A7", "U+104A8", "U+104A9">>,
       <<"U+10D30", "U+10D31", "U+10D32", "U+10D33", "U+10D34",
         "U+10D35", "U+10D36", "U+10D37", "U+10D38", "U+10D39">>,
       <<"U+11066", "U+11067", "U+11068", "U+11069", "U+1106A",
         "U+1106B", "U+1106C", "U+1106D", "U+1106E", "U+1106F">>,
       <<"U+110F0", "U+110F1", "U+110F2", "U+110F3", "U+110F4",
         "U+110F5", "U+110F6", "U+110F7", "U+110F8", "U+110F9">>,
       <<"U+11136", "U+11137", "U+11138", "U+11139", "U+1113A",
         "U+1113B", "U+1113C", "U+1113D", "U+1113E", "U+1113F">>,
       <<"U+111D0", "U+111D1", "U+111D2", "U+111D3", "U+111D4",
         "U+111D5", "U+111D6", "U+111D7", "U+111D8", "U+111D9">>,
       <<"U+112F0", "U+112F1", "U+112F2", "U+112F3", "U+112F4",
         "U+112F5", "U+112F6", "U+112F7", "U+112F8", "U+112F9">>,
       <<"U+11450", "U+11451", "U+11452", "U+11453", "U+11454",
         "U+11455", "U+11456", "U+11457", "U+11458", "U+11459">>,
       <<"U+114D0", "U+114D1", "U+114D2", "U+114D3", "U+114D4",
         "U+114D5", "U+114D6", "U+114D7", "U+114D8", "U+114D9">>,
       <<"U+11650", "U+11651", "U+11652", "U+11653", "U+11654",
         "U+11655", "U+11656", "U+11657", "U+11658", "U+11659">>,
       <<"U+116C0", "U+116C1", "U+116C2", "U+116C3", "U+116C4",
         "U+116C5", "U+116C6", "U+116C7", "U+116C8", "U+116C9">>,
       <<"U+11730", "U+11731", "U+11732", "U+11733", "U+11734",
         "U+11735", "U+11736", "U+11737", "U+11738", "U+11739">>,
       <<"U+118E0", "U+118E1", "U+118E2", "U+118E3", "U+118E4",
         "U+118E5", "U+118E6", "U+118E7", "U+118E8", "U+118E9">>,
       <<"U+11950", "U+11951", "U+11952", "U+11953", "U+11954",
         "U+11955", "U+11956", "U+11957", "U+11958", "U+11959">>,
       <<"U+11C50", "U+11C51", "U+11C52", "U+11C53", "U+11C54",
         "U+11C55", "U+11C56", "U+11C57", "U+11C58", "U+11C59">>,
       <<"U+11D50", "U+11D51", "U+11D52", "U+11D53", "U+11D54",
         "U+11D55", "U+11D56", "U+11D57", "U+11D58", "U+11D59">>,
       <<"U+11DA0", "U+11DA1", "U+11DA2", "U+11DA3", "U+11DA4",
         "U+11DA5", "U+11DA6", "U+11DA7", "U+11DA8", "U+11DA9">>,
       <<"U+16A60", "U+16A61", "U+16A62", "U+16A63", "U+16A64",
         "U+16A65", "U+16A66", "U+16A67", "U+16A68", "U+16A69">>,
       <<"U+16AC0", "U+16AC1", "U+16AC2", "U+16AC3", "U+16AC4",
         "U+16AC5", "U+16AC6", "U+16AC7", "U+16AC8", "U+16AC9">>,
       <<"U+16B50", "U+16B51", "U+16B52", "U+16B53", "U+16B54",
         "U+16B55", "U+16B56", "U+16B57", "U+16B58", "U+16B59">>,
       <<"U+1D7CE", "U+1D7CF", "U+1D7D0", "U+1D7D1", "U+1D7D2",
         "U+1D7D3", "U+1D7D4", "U+1D7D5", "U+1D7D6", "U+1D7D7">>,
       <<"U+1D7D8", "U+1D7D9", "U+1D7DA", "U+1D7DB", "U+1D7DC",
         "U+1D7DD", "U+1D7DE", "U+1D7DF", "U+1D7E0", "U+1D7E1">>,
       <<"U+1D7E2", "U+1D7E3", "U+1D7E4", "U+1D7E5", "U+1D7E6",
         "U+1D7E7", "U+1D7E8", "U+1D7E9", "U+1D7EA", "U+1D7EB">>,
       <<"U+1D7EC", "U+1D7ED", "U+1D7EE", "U+1D7EF", "U+1D7F0",
         "U+1D7F1", "U+1D7F2", "U+1D7F3", "U+1D7F4", "U+1D7F5">>,
       <<"U+1D7F6", "U+1D7F7", "U+1D7F8", "U+1D7F9", "U+1D7FA",
         "U+1D7FB", "U+1D7FC", "U+1D7FD", "U+1D7FE", "U+1D7FF">>,
       <<"U+1E140", "U+1E141", "U+1E142", "U+1E143", "U+1E144",
         "U+1E145", "U+1E146", "U+1E147", "U+1E148", "U+1E149">>,
       <<"U+1E2F0", "U+1E2F1", "U+1E2F2", "U+1E2F3", "U+1E2F4",
         "U+1E2F5", "U+1E2F6", "U+1E2F7", "U+1E2F8", "U+1E2F9">>,
       <<"U+1E950", "U+1E951", "U+1E952", "U+1E953", "U+1E954",
         "U+1E955", "U+1E956", "U+1E957", "U+1E958", "U+1E959">>,
       <<"U+1FBF0", "U+1FBF1", "U+1FBF2", "U+1FBF3", "U+1FBF4",
         "U+1FBF5", "U+1FBF6", "U+1FBF7", "U+1FBF8", "U+1FBF9">>
    >>

\* what \d matches in a str pattern: every Unicode decimal digit
Digits ==
    AsciiDigits
        \cup {UnicodeDigitRows[r][i] : r \in 1..Len(UnicodeDigitRows), i \in 1..10}

\* the class [1-9]
NonZeroDigits == AsciiDigits \ {"0"}

\* int(c) of one decimal digit
DigitVal(c) ==
    IF c \in AsciiDigits
    THEN CASE c = "0" -> 0 [] c = "1" -> 1 [] c = "2" -> 2 [] c = "3" -> 3
           [] c = "4" -> 4 [] c = "5" -> 5 [] c = "6" -> 6 [] c = "7" -> 7
           [] c = "8" -> 8 [] c = "9" -> 9
    ELSE (CHOOSE i \in 1..10 :
              \E r \in 1..Len(UnicodeDigitRows) : UnicodeDigitRows[r][i] = c) - 1

RECURSIVE IntOf(_)
\* int(s) of a string of decimal digits, of whatever scripts
IntOf(s) ==
    IF s = <<>> THEN 0
    ELSE 10 * IntOf(SubSeq(s, 1, Len(s) - 1)) + DigitVal(s[Len(s)])

AllDigits(s, from, to) == \A i \in from..to : s[i] \in Digits

(***************************************************************************)
(* datetime.date: the proleptic Gregorian calendar                         *)
(***************************************************************************)
MINYEAR == 1

MAXYEAR == 9999

IsLeap(y) == (y % 4 = 0) /\ ((y % 100 # 0) \/ (y % 400 = 0))

DaysInMonth(y, m) ==
    IF m = 2 THEN (IF IsLeap(y) THEN 29 ELSE 28)
    ELSE IF m \in {4, 6, 9, 11} THEN 30 ELSE 31

\* date(y, m, d) is constructible: otherwise the constructor raises ValueError
ValidDate(y, m, d) ==
    /\ y >= MINYEAR
    /\ y <= MAXYEAR
    /\ m \in 1..12
    /\ d \in 1..DaysInMonth(y, m)

Date(y, m, d) == [year |-> y, month |-> m, day |-> d]

DaysBeforeYear(y) ==
    (y - 1) * 365 + ((y - 1) \div 4) - ((y - 1) \div 100) + ((y - 1) \div 400)

RECURSIVE DaysBeforeMonth(_, _)
DaysBeforeMonth(y, m) ==
    IF m = 1 THEN 0 ELSE DaysBeforeMonth(y, m - 1) + DaysInMonth(y, m - 1)

\* date.toordinal()
ToOrdinal(dt) == DaysBeforeYear(dt.year) + DaysBeforeMonth(dt.year, dt.month) + dt.day

\* (a - b).days
DaysBetween(a, b) == ToOrdinal(a) - ToOrdinal(b)

Monday == <<"M", "o", "n", "d", "a", "y">>

Tuesday == <<"T", "u", "e", "s", "d", "a", "y">>

Wednesday == <<"W", "e", "d", "n", "e", "s", "d", "a", "y">>

Thursday == <<"T", "h", "u", "r", "s", "d", "a", "y">>

Friday == <<"F", "r", "i", "d", "a", "y">>

Saturday == <<"S", "a", "t", "u", "r", "d", "a", "y">>

Sunday == <<"S", "u", "n", "d", "a", "y">>

DayNames == <<Monday, Tuesday, Wednesday, Thursday, Friday, Saturday, Sunday>>

\* strftime("%A") of the date with this ordinal (date.weekday() is
\* (toordinal() + 6) % 7, Monday = 0), in the C locale
DayNameOfOrdinal(o) == DayNames[((o + 6) % 7) + 1]

\* date.replace(year=y): raises ValueError when the day does not exist in y
\* or y is past MAXYEAR
CanReplaceYear(dt, y) == ValidDate(y, dt.month, dt.day)

ReplaceYear(dt, y) == Date(y, dt.month, dt.day)

(***************************************************************************)
(* Field validators                                                        *)
(***************************************************************************)
PhoneLen == 10

\* re.match(r'^\d{10}$', value): without re.MULTILINE "$" matches at the end
\* of the string and also just before a newline that ends the string
PhoneMatch(value) ==
    /\ Len(value) >= PhoneLen
    /\ AllDigits(value, 1, PhoneLen)
    /\ \/ Len(value) = PhoneLen
       \/ Len(value) = PhoneLen + 1 /\ value[PhoneLen + 1] = "\n"

\* Phone.__init__
Phone(value) ==
    IF ~PhoneMatch(value) THEN [exc |-> "ValueError", value |-> None]
    ELSE [exc |-> "", value |-> value]

\* strptime's %d: 3[0-1]|[1-2]\d|0[1-9]|[1-9]| [1-9], taking k characters from i
DayDirective(s, i, k) ==
    /\ i + k - 1 <= Len(s)
    /\ \/ k = 2 /\ s[i] = "3" /\ s[i + 1] \in {"0", "1"}
       \/ k = 2 /\ s[i] \in {"1", "2"} /\ s[i + 1] \in Digits
       \/ k = 2 /\ s[i] = "0" /\ s[i + 1] \in NonZeroDigits
       \/ k = 1 /\ s[i] \in NonZeroDigits
       \/ k = 2 /\ s[i] = " " /\ s[i + 1] \in NonZeroDigits

\* strptime's %m: 1[0-2]|0[1-9]|[1-9]
MonthDirective(s, i, k) ==
    /\ i + k - 1 <= Len(s)
    /\ \/ k = 2 /\ s[i] = "1" /\ s[i + 1] \in {"0", "1", "2"}
       \/ k = 2 /\ s[i] = "0" /\ s[i + 1] \in NonZeroDigits
       \/ k = 1 /\ s[i] \in NonZeroDigits

\* strptime's %Y: \d\d\d\d
YearDirective(s, i) ==
    /\ i + 3 <= Len(s)
    /\ AllDigits(s, i, i + 3)

\* the pattern %d-%m-%Y matched at the start of s with a day of kd and a
\* month of km characters
FormatMatch(s, kd, km) ==
    /\ DayDirective(s, 1, kd)
    /\ kd + 1 <= Len(s) /\ s[kd + 1] = "-"
    /\ MonthDirective(s, kd + 2, km)
    /\ kd + km + 2 <= Len(s) /\ s[kd + km + 2] = "-"
    /\ YearDirective(s, kd + km + 3)

\* datetime.strptime(value, "%d-%m-%Y").date(): ValueError when the pattern
\* does not match, when unconverted data remains after the match, or when the
\* fields name no date
Strptime(s) ==
    LET ms == {p \in {1, 2} \X {1, 2} : FormatMatch(s, p[1], p[2])}
    IN  IF ms = {} THEN [exc |-> "ValueError", date |-> None]
        ELSE LET p  == CHOOSE q \in ms : TRUE
                 kd == p[1]
                 km == p[2]
                 d  == IntOf(SubSeq(s, IF s[1] = " " THEN 2 ELSE 1, kd))
                 m  == IntOf(SubSeq(s, kd + 2, kd + km + 1))
                 y  == IntOf(SubSeq(s, kd + km + 3, kd + km + 6))
             IN  IF Len(s) # kd + km + 6 THEN [exc |-> "ValueError", date |-> None]
                 ELSE IF ~ValidDate(y, m, d) THEN [exc |-> "ValueError", date |-> None]
                 ELSE [exc |-> "", date |-> Date(y, m, d)]

\* Birthday.__init__
Birthday(value) ==
    IF Strptime(value).exc # "" THEN [exc |-> "ValueError", value |-> None]
    ELSE [exc |-> "", value |-> value]

(***************************************************************************)
(* Record                                                                  *)
(***************************************************************************)
\* Record.__init__: Birthday(birthday) if birthday else None
Record(name, birthday) ==
    IF birthday # None /\ Birthday(birthday).exc # ""
    THEN [exc |-> "ValueError", rec |-> None]
    ELSE [exc |-> "",
          rec |-> [name |-> name, phones |-> <<>>,
                   birthday |-> IF birthday # None THEN Birthday(birthday).value
                                ELSE None]]

\* Record.add_phone: Phone(phone) raises before anything is appended
add_phone(rec, phone) ==
    IF Phone(phone).exc # "" THEN [exc |-> "ValueError", rec |-> rec]
    ELSE [exc |-> "",
          rec |-> [rec EXCEPT !.phones = Append(@, Phone(phone).value)]]

\* a plausible slip: only the first phone whose string is phone goes
remove_phone_FirstOnly(rec, phone) ==
    IF \E i \in 1..Len(rec.phones) : rec.phones[i] = phone
    THEN LET i == CHOOSE k \in 1..Len(rec.phones) :
                      /\ rec.phones[k] = phone
                      /\ \A j \in 1..(k - 1) : rec.phones[j] # phone
         IN  [rec EXCEPT !.phones = SubSeq(@, 1, i - 1) \o SubSeq(@, i + 1, Len(@))]
    ELSE rec

\* Record.remove_phone: every phone whose string is phone goes
remove_phone(rec, phone) ==
    [rec EXCEPT !.phones = SelectSeq(@, LAMBDA p : p # phone)]

\* Record.edit_phone: remove_phone, then add_phone on what is left
edit_phone(rec, old_phone, new_phone) ==
    add_phone(remove_phone(rec, old_phone), new_phone)

\* Record.find_phone: the first phone whose string is phone, or None
find_phone(rec, phone) ==
    IF \E i \in 1..Len(rec.phones) : rec.phones[i] = phone
    THEN rec.phones[CHOOSE i \in 1..Len(rec.phones) :
                        /\ rec.phones[i] = phone
                        /\ \A j \in 1..(i - 1) : rec.phones[j] # phone]
    ELSE None

\* Record.add_birthday: birthday is [isBirthday, value], a Birthday object or
\* any other value
Record_add_birthday(rec, birthday) ==
    IF ~birthday.isBirthday THEN [exc |-> "ValueError", rec |-> rec]
    ELSE [exc |-> "", rec |-> [rec EXCEPT !.birthday = birthday.value]]

(***************************************************************************)
(* AddressBook                                                             *)
(***************************************************************************)
Keys(d) == {d[i].key : i \in 1..Len(d)}

IndexOf(d, name) == CHOOSE i \in 1..Len(d) : d[i].key = name

\* self.data[name] = record: a present key keeps its place, a new one goes last
SetItem(d, name, record) ==
    IF name \in Keys(d)
    THEN [d EXCEPT ![IndexOf(d, name)] = [key |-> name, rec |-> record]]
    ELSE Append(d, [key |-> name, rec |-> record])

\* AddressBook.find: self.data.get(name)
find(d, name) == IF name \in Keys(d) THEN d[IndexOf(d, name)].rec ELSE None

\* a plausible slip: a contact already stored keeps its Record and only gains
\* the phone
add_record_KeepsOld(d, name, phone, birthday) ==
    IF Record(name, birthday).exc # "" \/ Phone(phone).exc # ""
    THEN [exc |-> "ValueError", data |-> d]
    ELSE IF name \in Keys(d)
    THEN [exc |-> "", data |-> SetItem(d, name, add_phone(find(d, name), phone).rec)]
    ELSE [exc |-> "",
          data |-> SetItem(d, name, add_phone(Record(name, birthday).rec, phone).rec)]

\* AddressBook.add_record
add_record(d, name, phone, birthday) ==
    IF Record(name, birthday).exc # ""
    THEN [exc |-> "ValueError", data |-> d]
    ELSE IF add_phone(Record(name, birthday).rec, phone).exc # ""
    THEN [exc |-> "ValueError", data |-> d]
    ELSE [exc |-> "",
          data |-> SetItem(d, name, add_phone(Record(name, birthday).rec, phone).rec)]

\* AddressBook.update_record
update_record(d, name, new_record) ==
    IF name \in Keys(d)
    THEN [exc |-> "", data |-> SetItem(d, name, new_record)]
    ELSE [exc |-> "KeyError", data |-> d]

\* AddressBook.delete
delete(d, name) == SelectSeq(d, LAMBDA e : e.key # name)

(***************************************************************************)
(* AddressBook.get_birthdays_per_week                                      *)
(***************************************************************************)
NoShiftDays == {Monday, Sunday, Saturday}

\* a plausible slip: the window closed one day late
InWindow_OneDayMore(delta_days) == delta_days <= 7 /\ delta_days >= -2

\* line 109: the window of the days that count as upcoming
InWindow(delta_days) == delta_days < 7 /\ delta_days >= -2

\* lines 100-107: birthday_this_year, its move to the next year, delta_days.
\* Either replace(year=...) raises ValueError for a 29 February.
DeltaDays(value, today, today_day) ==
    LET birthday == Strptime(value).date
        this     == ReplaceYear(birthday, today.year)
        moved    == /\ ToOrdinal(this) < ToOrdinal(today)
                    /\ DaysBetween(this, today) > -3
                    /\ today_day \notin NoShiftDays
    IN  IF ~CanReplaceYear(birthday, today.year)
        THEN [exc |-> "ValueError", delta |-> 0]
        ELSE IF moved /\ ~CanReplaceYear(this, today.year + 1)
        THEN [exc |-> "ValueError", delta |-> 0]
        ELSE [exc |-> "",
              delta |-> IF moved
                        THEN DaysBetween(ReplaceYear(this, today.year + 1), today)
                        ELSE DaysBetween(this, today)]

\* lines 109-123: the weekday the name is filed under, or None for continue
CelebrationDay(delta_days, today, today_day) ==
    LET birthday_weekday == DayNameOfOrdinal(ToOrdinal(today) + delta_days)
    IN  IF InWindow(delta_days)
        THEN IF delta_days < 7 /\ delta_days >= 0 /\ today_day \notin NoShiftDays
             THEN (IF birthday_weekday \in {Sunday, Saturday} THEN Monday
                   ELSE birthday_weekday)
             ELSE IF delta_days < 7 /\ delta_days > 5 /\ today_day = Monday
             THEN None
             ELSE IF delta_days >= -2 /\ delta_days <= 0 /\ today_day = Monday
             THEN Monday
             ELSE IF delta_days >= -1 /\ delta_days = 0 /\ today_day = Sunday
             THEN Monday
             ELSE IF delta_days = 0 /\ today_day = Sunday
             THEN Monday
             ELSE birthday_weekday
        ELSE None

\* birthdays_by_day[day].append(name) on a defaultdict(list), kept as the
\* sequence of its items [day, names] in insertion order
BucketAppend(by_day, day, name) ==
    IF \E i \in 1..Len(by_day) : by_day[i].day = day
    THEN LET i == CHOOSE j \in 1..Len(by_day) : by_day[j].day = day
         IN  [by_day EXCEPT ![i].names = Append(@, name)]
    ELSE Append(by_day, [day |-> day, names |-> <<name>>])

RECURSIVE BirthdaysLoop(_, _, _, _, _)
\* lines 98-125: the loop over self.data.items() from item i on
BirthdaysLoop(d, i, today, today_day, by_day) ==
    IF i > Len(d) THEN [exc |-> "", val |-> by_day]
    ELSE IF d[i].rec.birthday = None
    THEN BirthdaysLoop(d, i + 1, today, today_day, by_day)
    ELSE LET dd  == DeltaDays(d[i].rec.birthday, today, today_day)
             day == CelebrationDay(dd.delta, today, today_day)
         IN  IF dd.exc # "" THEN [exc |-> dd.exc, val |-> <<>>]
             ELSE IF day = None
             THEN BirthdaysLoop(d, i + 1, today, today_day, by_day)
             ELSE BirthdaysLoop(d, i + 1, today, today_day,
                                BucketAppend(by_day, day, d[i].key))

RECURSIVE Join(_, _)
\* sep.join(strs)
Join(strs, sep) ==
    IF strs = <<>> THEN <<>>
    ELSE IF Len(strs) = 1 THEN strs[1]
    ELSE strs[1] \o sep \o Join(Tail(strs), sep)

\* lines 127-128: one print(f"{day}: {', '.join(names)}") per item
PrintedLines(grouping) ==
    [i \in 1..Len(grouping) |->
         grouping[i].day \o <<":", " ">> \o Join(grouping[i].names, <<",", " ">>)]

\* the end of get_birthdays_per_week after the loop ended as r: the method
\* returns None; out is what it hands to print and birthdays_by_day its local
\* grouping, both empty when an exception ended the loop
AfterLoop(r) ==
    [exc |-> r.exc, val |-> None, out |-> PrintedLines(r.val),
     birthdays_by_day |-> r.val]

\* AddressBook.get_birthdays_per_week.  The clock is read twice: today is
\* the date of the read of line 95, today_day the weekday name of the read of
\* line 96.
get_birthdays_per_week(d, today, today_day) ==
    AfterLoop(BirthdaysLoop(d, 1, today, today_day, <<>>))

(***************************************************************************)
(* Command handlers, each wrapped by input_error: args is the list of      *)
(* tokens after the command word; the result is [data, exc, val] with exc  *)
(* the exception input_error caught and val the string returned            *)
(***************************************************************************)
\* the message of the ValueError Phone raises (line 25)
PhoneFormatMessage ==
    <<"I", "n", "v", "a", "l", "i", "d", " ", "p", "h", "o", "n", "e", " ",
      "n", "u", "m", "b", "e", "r", " ", "f", "o", "r", "m", "a", "t">>

\* the message of the ValueError Birthday raises (line 34)
BirthdayFormatMessage ==
    <<"I", "n", "v", "a", "l", "i", "d", " ", "b", "i", "r", "t", "h", "d",
      "a", "y", " ", "f", "o", "r", "m", "a", "t", ".", " ", "U", "s", "e",
      " ", "'", "D", "D", "-", "M", "M", "-", "Y", "Y", "Y", "Y", "'", ".">>

\* line 140
IndexErrorMessage ==
    <<"I", "n", "v", "a", "l", "i", "d", " ", "c", "o", "m", "m", "a", "n",
      "d", ".", " ", "P", "l", "e", "a", "s", "e", " ", "p", "r", "o", "v",
      "i", "d", "e", " ", "t", "h", "e", " ", "r", "e", "q", "u", "i", "r",
      "e", "d", " ", "a", "r", "g", "u", "m", "e", "n", "t", "s", ".">>

\* f"Contact not found: {name}"
ContactNotFound(name) ==
    <<"C", "o", "n", "t", "a", "c", "t", " ", "n", "o", "t", " ", "f", "o",
      "u", "n", "d", ":", " ">> \o name

\* add_contact: with birthday None the one ValueError add_record can raise is
\* Phone's, and input_error returns its message
add_contact(args, d) ==
    IF Len(args) # 2
    THEN [data |-> d, exc |-> "",
          val |-> <<"I", "n", "v", "a", "l", "i", "d", " ", "c", "o", "m",
                   "m", "a", "n", "d", ".", " ", "P", "l", "e", "a", "s",
                   "e", " ", "p", "r", "o", "v", "i", "d", "e", " ", "a",
                   " ", "n", "a", "m", "e", " ", "a", "n", "d", " ", "a",
                   " ", "p", "h", "o", "n", "e", " ", "n", "u", "m", "b",
                   "e", "r", ".">>]
    ELSE LET r == add_record(d, args[1], args[2], None)
         IN  IF r.exc # ""
             THEN [data |-> r.data, exc |-> r.exc, val |-> PhoneFormatMessage]
             ELSE [data |-> r.data, exc |-> "",
                   val |-> <<"C", "o", "n", "t", "a", "c", "t", " ">> \o args[1]
                           \o <<" ", "w", "i", "t", "h", " ", "p", "h",
                                "o", "n", "e", " ">> \o args[2]
                           \o <<" ", "a", "d", "d", "e", "d", " ", "s",
                                "u", "c", "c", "e", "s", "s", "f", "u",
                                "l", "l", "y", ".">>]

\* change_contact: record.phones[0] raises IndexError on a Record without phones
change_contact(args, d) ==
    IF Len(args) # 2
    THEN [data |-> d, exc |-> "",
          val |-> <<"I", "n", "v", "a", "l", "i", "d", " ", "c", "o", "m",
                   "m", "a", "n", "d", ".", " ", "P", "l", "e", "a", "s",
                   "e", " ", "p", "r", "o", "v", "i", "d", "e", " ", "a",
                   " ", "n", "a", "m", "e", " ", "a", "n", "d", " ", "a",
                   " ", "n", "e", "w", " ", "p", "h", "o", "n", "e", " ",
                   "n", "u", "m", "b", "e", "r", ".">>]
    ELSE IF find(d, args[1]) = None
    THEN [data |-> d, exc |-> "", val |-> ContactNotFound(args[1])]
    ELSE IF Len(find(d, args[1]).phones) = 0
    THEN [data |-> d, exc |-> "IndexError", val |-> IndexErrorMessage]
    ELSE LET record  == find(d, args[1])
             removed == remove_phone(record, record.phones[1])
             r       == add_phone(removed, args[2])
         IN  IF r.exc # ""
             THEN [data |-> SetItem(d, args[1], r.rec), exc |-> r.exc,
                   val |-> PhoneFormatMessage]
             ELSE [data |-> SetItem(d, args[1], r.rec), exc |-> "",
                   val |-> <<"C", "o", "n", "t", "a", "c", "t", " ", "u",
                             "p", "d", "a", "t", "e", "d", ".">>]

\* add_birthday: it hands Record.add_birthday a Birthday object, so the one
\* ValueError is Birthday's
add_birthday(args, d) ==
    IF Len(args) # 2
    THEN [data |-> d, exc |-> "",
          val |-> <<"I", "n", "v", "a", "l", "i", "d", " ", "c", "o", "m",
                   "m", "a", "n", "d", ".", " ", "P", "l", "e", "a", "s",
                   "e", " ", "p", "r", "o", "v", "i", "d", "e", " ", "a",
                   " ", "n", "a", "m", "e", " ", "a", "n", "d", " ", "a",
                   " ", "b", "i", "r", "t", "h", "d", "a", "y", " ", "(",
                   "f", "o", "r", "m", "a", "t", ":", " ", "D", "D", "-",
                   "M", "M", "-", "Y", "Y", "Y", "Y", ")", ".">>]
    ELSE IF find(d, args[1]) = None
    THEN [data |-> d, exc |-> "", val |-> ContactNotFound(args[1])]
    ELSE IF Birthday(args[2]).exc # ""
    THEN [data |-> d, exc |-> "ValueError", val |-> BirthdayFormatMessage]
    ELSE LET r == Record_add_birthday(find(d, args[1]),
                      [isBirthday |-> TRUE, value |-> Birthday(args[2]).value])
         IN  [data |-> SetItem(d, args[1], r.rec), exc |-> r.exc,
              val |-> <<"B", "i", "r", "t", "h", "d", "a", "y", " ", "a",
                        "d", "d", "e", "d", " ", "f", "o", "r", " ">>
                      \o args[1] \o <<".">>]

(***************************************************************************)
(* Inputs                                                                  *)
(***************************************************************************)
Names == {<<"a", "n", "n">>, <<"b", "o", "b">>}

P1 == <<"0", "5", "0", "1", "2", "3", "4", "5", "6", "7">>

P2 == <<"0", "6", "7", "1", "1", "1", "2", "2", "3", "3">>

\* accepted by Phone: "$" matches before the final newline
PNewline == P1 \o <<"\n">>

PBad == <<"1", "2", "3", "4", "5">>

B1 == <<"2", "4", "-", "0", "3", "-", "1", "9", "9", "0">>

BBad == <<"3", "1", "-", "0", "4", "-", "2", "0", "0", "0">>

BirthdayInputs == {None, B1, BBad}

\* what Record.add_birthday is handed: a Birthday object or a raw string
BirthdayArgs == {[isBirthday |-> TRUE, value |-> B1],
                 [isBirthday |-> FALSE, value |-> B1]}

Result(op, args, exc, val) == [op |-> op, args |-> args, exc |-> exc, val |-> val]

Init ==
    /\ data = <<>>
    /\ pre = <<>>
    /\ ret = Result("__init__", <<>>, "", None)
    /\ out = <<>>
    /\ birthdays_by_day = <<>>

(***************************************************************************)
(* Spec: the AddressBook under direct calls of its methods                 *)
(***************************************************************************)
BookPhones == {P1, P2, PBad}

\* the Records update_record is handed: fresh ones with one or two phones,
\* shared with no other entry
NewRecords ==
    {add_phone(Record(n, b).rec, P1).rec : n \in Names, b \in {None, B1}}
        \cup {add_phone(add_phone(Record(n, b).rec, P2).rec, P1).rec :
                  n \in Names, b \in {None, B1}}

AddRecord ==
    \E name \in Names, phone \in BookPhones, birthday \in BirthdayInputs :
        LET r == add_record(data, name, phone, birthday)
        IN  /\ data' = r.data
            /\ pre' = data
            /\ ret' = Result("add_record", <<name, phone, birthday>>, r.exc, None)
            /\ out' = <<>>
            /\ birthdays_by_day' = <<>>

Find ==
    \E name \in Names :
        /\ data' = data
        /\ pre' = data
        /\ ret' = Result("find", <<name>>, "", find(data, name))
        /\ out' = <<>>
        /\ birthdays_by_day' = <<>>

UpdateRecord ==
    \E name \in Names, new_record \in NewRecords :
        LET r == update_record(data, name, new_record)
        IN  /\ data' = r.data
            /\ pre' = data
            /\ ret' = Result("update_record", <<name, new_record>>, r.exc, None)
            /\ out' = <<>>
            /\ birthdays_by_day' = <<>>

Delete ==
    \E name \in Names :
        /\ data' = delete(data, name)
        /\ pre' = data
        /\ ret' = Result("delete", <<name>>, "", None)
        /\ out' = <<>>
        /\ birthdays_by_day' = <<>>

Next ==
    \/ AddRecord
    \/ Find
    \/ UpdateRecord
    \/ Delete

Spec == Init /\ [][Next]_vars

(***************************************************************************)
(* SpecRecord: one contact's Record under direct calls of its methods      *)
(***************************************************************************)
RecordPhones == {P1, P2, PNewline, PBad}

Contact == <<"a", "n", "n">>

\* the Record comes into being through add_record
CreateRecord ==
    \E phone \in RecordPhones, birthday \in BirthdayInputs :
        LET r == add_record(data, Contact, phone, birthday)
        IN  /\ data' = r.data
            /\ pre' = data
            /\ ret' = Result("add_record", <<Contact, phone, birthday>>, r.exc, None)
            /\ out' = <<>>
            /\ birthdays_by_day' = <<>>

AddPhone ==
    \E name \in Keys(data), phone \in RecordPhones :
        LET r == add_phone(find(data, name), phone)
        IN  /\ Len(r.rec.phones) <= MaxPhones
            /\ data' = SetItem(data, name, r.rec)
            /\ pre' = data
            /\ ret' = Result("add_phone", <<name, phone>>, r.exc, None)
            /\ out' = <<>>
            /\ birthdays_by_day' = <<>>

RemovePhone ==
    \E name \in Keys(data), phone \in RecordPhones :
        /\ data' = SetItem(data, name, remove_phone(find(data, name), phone))
        /\ pre' = data
        /\ ret' = Result("remove_phone", <<name, phone>>, "", None)
        /\ out' = <<>>
        /\ birthdays_by_day' = <<>>

EditPhone ==
    \E name \in Keys(data), old_phone \in RecordPhones, new_phone \in RecordPhones :
        LET r == edit_phone(find(data, name), old_phone, new_phone)
        IN  /\ Len(r.rec.phones) <= MaxPhones
            /\ data' = SetItem(data, name, r.rec)
            /\ pre' = data
            /\ ret' = Result("edit_phone", <<name, old_phone, new_phone>>, r.exc, None)
            /\ out' = <<>>
            /\ birthdays_by_day' = <<>>

FindPhone ==
    \E name \in Keys(data), phone \in RecordPhones :
        /\ data' = data
        /\ pre' = data
        /\ ret' = Result("find_phone", <<name, phone>>, "",
                         find_phone(find(data, name), phone))
        /\ out' = <<>>
        /\ birthdays_by_day' = <<>>

AddBirthday ==
    \E name \in Keys(data), birthday \in BirthdayArgs :
        LET r == Record_add_birthday(find(data, name), birthday)
        IN  /\ data' = SetItem(data, name, r.rec)
            /\ pre' = data
            /\ ret' = Result("add_birthday", <<name, birthday>>, r.exc, None)
            /\ out' = <<>>
            /\ birthdays_by_day' = <<>>

NextRecord ==
    \/ CreateRecord
    \/ AddPhone
    \/ RemovePhone
    \/ EditPhone
    \/ FindPhone
    \/ AddBirthday

SpecRecord == Init /\ [][NextRecord]_vars

(***************************************************************************)
(* SpecCmd: the command loop of main() with add, change and add-birthday   *)
(***************************************************************************)
Tokens == {P1, P2, PBad, B1, BBad}

\* what user_input.split() leaves after the command word
ArgLists ==
    {<<n>> : n \in Names} \cup {<<n, t>> : n \in Names, t \in Tokens}
        \cup {<<n, t, t>> : n \in Names, t \in {P1}}

CmdAdd ==
    \E args \in ArgLists :
        LET r == add_contact(args, data)
        IN  /\ data' = r.data
            /\ pre' = data
            /\ ret' = Result("add", args, r.exc, r.val)
            /\ out' = <<>>
            /\ birthdays_by_day' = <<>>

CmdChange ==
    \E args \in ArgLists :
        LET r == change_contact(args, data)
        IN  /\ data' = r.data
            /\ pre' = data
            /\ ret' = Result("change", args, r.exc, r.val)
            /\ out' = <<>>
            /\ birthdays_by_day' = <<>>

CmdAddBirthday ==
    \E args \in ArgLists :
        LET r == add_birthday(args, data)
        IN  /\ data' = r.data
            /\ pre' = data
            /\ ret' = Result("add-birthday", args, r.exc, r.val)
            /\ out' = <<>>
            /\ birthdays_by_day' = <<>>

NextCmd ==
    \/ CmdAdd
    \/ CmdChange
    \/ CmdAddBirthday

SpecCmd == Init /\ [][NextCmd]_vars

(***************************************************************************)
(* SpecSched: contacts with birthdays and the weekly query, with the clock *)
(* at a day around the turn of the year 2023/2024, around 29 February      *)
(* 2024, or at the last day a date can hold                                *)
(***************************************************************************)
\* date.fromordinal(o)
FromOrdinal(o) ==
    LET y   == CHOOSE c \in (((o - 1) \div 366) + 1)..(((o - 1) \div 365) + 1) :
                   DaysBeforeYear(c) < o /\ o <= DaysBeforeYear(c + 1)
        doy == o - DaysBeforeYear(y)
        m   == CHOOSE c \in 1..12 :
                   /\ DaysBeforeMonth(y, c) < doy
                   /\ doy <= DaysBeforeMonth(y, c) + DaysInMonth(y, c)
    IN  Date(y, m, doy - DaysBeforeMonth(y, m))

\* dt + timedelta(days=n)
AddDays(dt, n) == FromOrdinal(ToOrdinal(dt) + n)

FirstToday == Date(2023, 12, 22)

FirstLeapToday == Date(2024, 2, 26)

\* date.max
LastDate == Date(MAXYEAR, 12, 31)

Todays ==
    {AddDays(FirstToday, n) : n \in 0..TodaySpan}
        \cup {AddDays(FirstLeapToday, n) : n \in 0..LeapSpan}
        \cup {LastDate}

SchedBirthdays ==
    { <<"0", "2", "-", "0", "1", "-", "1", "9", "9", "0">>,
      <<"3", "0", "-", "1", "2", "-", "1", "9", "8", "5">>,
      <<"2", "9", "-", "0", "2", "-", "2", "0", "0", "0">>,
      <<"2", "-", "3", "-", "1", "9", "9", "0">> }

SchedAddRecord ==
    \E name \in Names, birthday \in SchedBirthdays \cup {None} :
        LET r == add_record(data, name, P1, birthday)
        IN  /\ data' = r.data
            /\ pre' = data
            /\ ret' = Result("add_record", <<name, P1, birthday>>, r.exc, None)
            /\ out' = <<>>
            /\ birthdays_by_day' = <<>>

\* the query has ended as r
QueryEnds(today, today_day, r) ==
    /\ data' = data
    /\ pre' = data
    /\ ret' = Result("get_birthdays_per_week", <<today, today_day>>, r.exc, r.val)
    /\ out' = r.out
    /\ birthdays_by_day' = r.birthdays_by_day

\* today is the date read at line 95; the read of line 96 comes gap midnights
\* later (the clock does not go back, and not past date.max)
GetBirthdaysPerWeek ==
    \E today \in Todays, gap \in 0..ClockGap :
        /\ ToOrdinal(today) + gap <= ToOrdinal(LastDate)
        /\ QueryEnds(today, DayNameOfOrdinal(ToOrdinal(today) + gap),
                     get_birthdays_per_week(data, today,
                         DayNameOfOrdinal(ToOrdinal(today) + gap)))

NextSched ==
    \/ SchedAddRecord
    \/ GetBirthdaysPerWeek

SpecSched == Init /\ [][NextSched]_vars

(***************************************************************************)
(* SpecParse: the field validators on raw strings                          *)
(***************************************************************************)
DigitChars == <<"1", "2", "3", "4", "5", "6", "7", "8", "9", "0">>

DigitRun(n) == [i \in 1..n |-> DigitChars[((i - 1) % 10) + 1]]

\* "U+0663" is ARABIC-INDIC DIGIT THREE, "U+FF11" FULLWIDTH DIGIT ONE and
\* "U+00B2" SUPERSCRIPT TWO, which is no decimal digit
OtherChars == {"a", " ", "-", "+", "\n", "U+0663", "U+FF11", "U+00B2"}

\* runs of up to MaxRawLen digits, as they are and with one character replaced
PhoneRaws ==
    {DigitRun(n) : n \in 0..MaxRawLen}
        \cup UNION {{[DigitRun(n) EXCEPT ![i] = c] : i \in 1..n, c \in OtherChars} :
                        n \in 1..MaxRawLen}

DayTexts == {<<"0", "1">>, <<"1">>, <<"2", "8">>, <<"2", "9">>, <<"3", "0">>,
             <<"3", "1">>, <<"3", "2">>, <<"0", "0">>, <<" ", "1">>, <<"1", "a">>,
             <<"0">>, <<>>, <<"1", "U+0662">>, <<"U+0661", "2">>, <<"0", "U+0663">>}

MonthTexts == {<<"0", "1">>, <<"1">>, <<"0", "2">>, <<"2">>, <<"0", "4">>, <<"4">>,
               <<"1", "2">>, <<"1", "3">>, <<"0", "0">>, <<" ", "3">>, <<>>}

YearTexts == {<<"2", "0", "0", "0">>, <<"1", "9", "0", "0">>, <<"2", "0", "2", "3">>,
              <<"0", "0", "0", "0">>, <<"2", "0", "0">>, <<"2", "0", "0", "0", "0">>,
              <<"2", "0", "0", "0", "\n">>, <<"2", "0", "0", "0", " ">>,
              <<"1", "9", "U+0669", "U+FF10">>, <<"2", "0", "0", "U+00B2">>}

Separators == {<<"-">>, <<"/">>, <<>>}

\* day, month and year texts joined by a separator
BirthdayRaws ==
    {d \o sep \o m \o sep \o y :
         d \in DayTexts, m \in MonthTexts, y \in YearTexts, sep \in Separators}

\* a raw string is drawn, then handed to a validator
InitParse ==
    /\ data = <<>>
    /\ pre = <<>>
    /\ out = <<>>
    /\ birthdays_by_day = <<>>
    /\ ret \in {Result("raw", <<raw>>, "", None) : raw \in PhoneRaws \cup BirthdayRaws}

ParsePhone ==
    /\ ret.op = "raw"
    /\ ret' = Result("Phone", ret.args, Phone(ret.args[1]).exc, Phone(ret.args[1]).value)
    /\ UNCHANGED <<data, pre, out, birthdays_by_day>>

ParseBirthday ==
    /\ ret.op = "raw"
    /\ ret' = Result("Birthday", ret.args, Birthday(ret.args[1]).exc,
                     Birthday(ret.args[1]).value)
    /\ UNCHANGED <<data, pre, out, birthdays_by_day>>

NextParse ==
    \/ ParsePhone
    \/ ParseBirthday

SpecParse == InitParse /\ [][NextParse]_vars

(***************************************************************************)
(* Claims                                                                  *)
(***************************************************************************)
QueryDone == ret.op = "get_birthdays_per_week"

\* the date read at line 95
QueryToday == ret.args[1]

\* the weekday name read at line 96
QueryTodayDay == ret.args[2]

\* the names filed under some weekday of a grouping
ReportedNames(by_day) ==
    UNION {{by_day[i].names[j] : j \in 1..Len(by_day[i].names)} : i \in 1..Len(by_day)}

\* the names filed under one weekday of a grouping
NamesUnder(by_day, day) ==
    UNION {{by_day[i].names[j] : j \in 1..Len(by_day[i].names)} :
               i \in {k \in 1..Len(by_day) : by_day[k].day = day}}

\* delta_days of entry e as the query of QueryToday computes it
DeltaOf(e) ==
    DeltaDays(e.rec.birthday, QueryToday, QueryTodayDay)

\* the birthday's day and month fall d days after the day of the query
OccursIn(e, d) ==
    LET b == Strptime(e.rec.birthday).date
        o == AddDays(QueryToday, d)
    IN  o.month = b.month /\ o.day = b.day

\* C1: whenever the next occurrence of a stored birthday, counted into the
\* following year when it has passed this year, is 0 to 6 days after today,
\* the contact's name is in the grouping of get_birthdays_per_week.
C1_UpcomingBirthdayIsReported ==
    QueryDone =>
        \A i \in 1..Len(data) :
            (/\ data[i].rec.birthday # None
             /\ \E d \in 0..6 : OccursIn(data[i], d))
                => data[i].key \in ReportedNames(birthdays_by_day)

\* C2: for every today, a reported contact whose birthday occurrence falls on
\* a Saturday or Sunday is filed under "Monday", and the grouping has no
\* "Saturday" and no "Sunday" bucket.
C2_WeekendMovesToMonday ==
    QueryDone =>
        /\ \A i \in 1..Len(birthdays_by_day) :
               birthdays_by_day[i].day \notin {Saturday, Sunday}
        /\ \A i \in 1..Len(data) :
               (/\ data[i].key \in ReportedNames(birthdays_by_day)
                /\ DayNameOfOrdinal(ToOrdinal(QueryToday) + DeltaOf(data[i]).delta)
                       \in {Saturday, Sunday})
                   => data[i].key \in NamesUnder(birthdays_by_day, Monday)

\* C3: a name is in a bucket of get_birthdays_per_week only if it is the name
\* of a stored Record with a birthday whose deltaDays (after the move to the
\* next year) satisfies -2 <= deltaDays < 7.
C3_ReportedOnlyInWindow ==
    QueryDone =>
        /\ ReportedNames(birthdays_by_day) \subseteq Keys(data)
        /\ \A i \in 1..Len(data) :
               data[i].key \in ReportedNames(birthdays_by_day)
                   => /\ data[i].rec.birthday # None
                      /\ DeltaOf(data[i]).exc = ""
                      /\ -2 <= DeltaOf(data[i]).delta
                      /\ DeltaOf(data[i]).delta < 7

\* a query that reports a contact whose birthday was two days ago and leaves
\* out a contact whose birthday is 7 or more days away
C3_Witness ==
    /\ QueryDone
    /\ ret.exc = ""
    /\ \E i, j \in 1..Len(data) :
           /\ data[i].rec.birthday # None
           /\ data[j].rec.birthday # None
           /\ DeltaOf(data[i]).delta = -2
           /\ data[i].key \in ReportedNames(birthdays_by_day)
           /\ DeltaOf(data[j]).delta >= 7
           /\ data[j].key \notin ReportedNames(birthdays_by_day)

\* C4: when AddPhone, EditPhone, AddBirthday, AddRecord or UpdateRecord fails,
\* the book, with every Record's phone list and birthday, is what it was
\* before the call.
C4_NoPartialMutation ==
    (/\ ret.op \in {"add_phone", "edit_phone", "add_birthday", "add_record",
                    "update_record"}
     /\ ret.exc # "")
        => data = pre

EditDone == ret.op = "edit_phone" /\ ret.args[1] \in Keys(pre)

EditOld == ret.args[2]

EditNew == ret.args[3]

\* the Record had old among its phones and new is a phone Phone accepts
EditApplies ==
    /\ EditDone
    /\ \E i \in 1..Len(find(pre, ret.args[1]).phones) :
           find(pre, ret.args[1]).phones[i] = EditOld
    /\ Phone(EditNew).exc = ""

EditReplaced ==
    /\ find_phone(find(data, ret.args[1]), EditOld) = None
    /\ find_phone(find(data, ret.args[1]), EditNew) = EditNew

\* C5 as stated: for all old in the Record's phones and all valid new, new
\* equal to old included, after EditPhone(old, new) FindPhone(old) finds
\* nothing and FindPhone(new) returns new.
C5_EditPhoneReplaces == EditApplies => EditReplaced

\* C5 as amended: the same for every valid new different from old.
C5_EditPhoneReplacesOther == (EditApplies /\ EditNew # EditOld) => EditReplaced

\* an edit of a phone the Record held twice to a different valid phone
C5_Witness ==
    /\ EditApplies
    /\ EditNew # EditOld
    /\ ret.exc = ""
    /\ Cardinality({i \in 1..Len(find(pre, ret.args[1]).phones) :
                        find(pre, ret.args[1]).phones[i] = EditOld}) = 2

\* C6: Phone accepts a raw string exactly when it is 10 decimal digits 0-9
\* and nothing else, keeps the raw string as its value, and otherwise raises the
\* format error.
C6_PhoneTenDigitsOnly ==
    ret.op = "Phone" =>
        LET raw == ret.args[1]
        IN  /\ (ret.exc = "") <=> (/\ Len(raw) = 10
                                    /\ \A i \in 1..Len(raw) : raw[i] \in AsciiDigits)
            /\ ret.exc = "" => ret.val = raw
            /\ ret.exc # "" => ret.exc = "ValueError"

\* a raw string of the form DD-MM-YYYY, all ten characters, that names a date
PaddedDate(raw) ==
    /\ Len(raw) = 10
    /\ raw[3] = "-" /\ raw[6] = "-"
    /\ \A i \in {1, 2, 4, 5, 7, 8, 9, 10} : raw[i] \in AsciiDigits
    /\ ValidDate(IntOf(SubSeq(raw, 7, 10)), IntOf(SubSeq(raw, 4, 5)),
                 IntOf(SubSeq(raw, 1, 2)))

\* C7: Birthday accepts a raw string exactly when it has the form DD-MM-YYYY
\* with two-digit day and month and four-digit year and names a real date;
\* one-digit days or months and dates that do not exist are refused.
C7_BirthdayZeroPadded ==
    ret.op = "Birthday" => ((ret.exc = "") <=> PaddedDate(ret.args[1]))

\* C8: after a successful AddRecord(name, phone, birthday) exactly one entry
\* is stored under name; it is a Record named name with the phones [phone]
\* and the given birthday (None when none was given); every other name has
\* the entry it had.
C8_AddRecordStoresExactlyOne ==
    (ret.op = "add_record" /\ ret.exc = "") =>
        LET name == ret.args[1]
        IN  /\ Cardinality({i \in 1..Len(data) : data[i].key = name}) = 1
            /\ find(data, name).name = name
            /\ find(data, name).phones = <<ret.args[2]>>
            /\ find(data, name).birthday = ret.args[3]
            /\ Keys(data) = Keys(pre) \cup {name}
            /\ \A i \in 1..Len(pre) :
                   pre[i].key # name => find(data, pre[i].key) = pre[i].rec

\* AddRecord over a Record that had two phones and a birthday, beside
\* another contact
C8_Witness ==
    /\ ret.op = "add_record"
    /\ ret.exc = ""
    /\ ret.args[1] \in Keys(pre)
    /\ Len(find(pre, ret.args[1]).phones) = 2
    /\ find(pre, ret.args[1]).birthday # None
    /\ ret.args[3] = None
    /\ Keys(pre) # {ret.args[1]}

\* C9: after any sequence of add, change and add-birthday commands every
\* stored Record has a phone, and change never fails for want of a phone to
\* replace.
C9_EveryRecordHasPhone ==
    /\ \A i \in 1..Len(data) : Len(data[i].rec.phones) >= 1
    /\ ~(ret.op = "change" /\ ret.exc = "IndexError")

\* C10: with every stored birthday accepted by Birthday, the query raises
\* nothing, whatever today is.
C10_QueryNeverRaises == QueryDone => ret.exc = ""

=============================================================================
